---- MODULE Spec2Model ----
(***************************************************************************)
(* The form-submission pipeline of the daailogic website:                  *)
(*   - the Apps Script webhook doPost of src/FORM_DOC.md (lines 30-107):   *)
(*     parseQueryString, normalizeValue, doPost, with the spreadsheet and  *)
(*     the mail service as collaborators that may fail;                    *)
(*   - the contact form's submit listener of src/script.js (lines 33-80).  *)
(* A JavaScript string is a sequence of one-character strings, so that     *)
(* split, trim, join and the URL decoding are computed character by        *)
(* character.                                                              *)
(***************************************************************************)
EXTENDS Integers, Sequences, FiniteSets, TLC

VARIABLES
    \* ---- webhook (src/FORM_DOC.md) ----
    e,          \* the request doPost is handling
    pc,         \* position of doPost: "start","built","header","appended","notified","done"
    data,       \* doPost's local `data` after steps 1 and 2
    headers,    \* doPost's local `headers`
    row,        \* doPost's local `row`
    sheet,      \* the spreadsheet tab: [cols |-> grid width, rows |-> rows of cells]
    outbox,     \* bodies handed to MailApp.sendEmail, oldest first
    responses,  \* what doPost returned, one per finished invocation
    clock,      \* number of requests received, the source of `new Date()`
    faults,     \* whether the collaborators may throw in this behaviour
    before,     \* the sheet as it was when the current request arrived
    trace,      \* the steps the current invocation completed, in order
    \* ---- contact form (src/script.js) ----
    btnText,    \* btn.innerText
    btnDisabled,\* btn.disabled
    hasSuccess, \* whether document.getElementById('formSuccess') found an element
    visible,    \* formSuccess.classList contains 'visible'
    formFilled, \* the form holds user input (reset() clears it)
    inflight,   \* submit listeners suspended at `await fetch`, each with its originalText
    timers,     \* pending setTimeout callbacks
    alertOpen,  \* the blocking alert() is on screen
    submits,    \* number of submit events the listener handled
    fetches,    \* number of fetch calls issued
    log         \* per fetch resolved: outcome, path taken, timer armed

srvVars == <<e, pc, data, headers, row, sheet, outbox, responses, clock, faults, before, trace>>
cliVars == <<btnText, btnDisabled, hasSuccess, visible, formFilled, inflight, timers,
             alertOpen, submits, fetches, log>>
vars == <<srvVars, cliVars>>

(***************************************************************************)
(* Bounds of the model.                                                    *)
(***************************************************************************)
MaxFields == 2        \* fields of a generated submission
MaxSegs == 2          \* segments of a generated order hint
MaxRequests == 2      \* requests the webhook receives in one behaviour
MaxSubmits == 2       \* submit events of the contact form in one behaviour

(***************************************************************************)
(* JavaScript strings and the String methods the webhook uses.             *)
(***************************************************************************)
RECURSIVE indexOf(_, _, _)
\* first position >= from at which `sep` occurs in `s`, 0 when there is none
indexOf(s, sep, from) ==
    IF from + Len(sep) - 1 > Len(s) THEN 0
    ELSE IF SubSeq(s, from, from + Len(sep) - 1) = sep THEN from
    ELSE indexOf(s, sep, from + 1)

RECURSIVE split(_, _)
\* String.prototype.split with a non-empty string separator
split(s, sep) ==
    LET i == indexOf(s, sep, 1) IN
    IF i = 0 THEN <<s>>
    ELSE <<SubSeq(s, 1, i - 1)>> \o split(SubSeq(s, i + Len(sep), Len(s)), sep)

RECURSIVE join(_, _)
\* Array.prototype.join of an array of strings
join(a, sep) ==
    IF Len(a) = 0 THEN <<>>
    ELSE IF Len(a) = 1 THEN a[1]
    ELSE a[1] \o sep \o join(Tail(a), sep)

WhiteSpace == {" ", "\t", "\n"}

RECURSIVE trimStart(_)
trimStart(s) ==
    IF s # <<>> /\ Head(s) \in WhiteSpace THEN trimStart(Tail(s)) ELSE s

RECURSIVE trimEnd(_)
trimEnd(s) ==
    IF s # <<>> /\ s[Len(s)] \in WhiteSpace THEN trimEnd(SubSeq(s, 1, Len(s) - 1)) ELSE s

\* String.prototype.trim
trim(s) == trimEnd(trimStart(s))

\* replacePlus with the substitution forgotten
replacePlus_Missing(s) == s

\* s.replace(/\+/g, ' ')
replacePlus(s) == [i \in 1..Len(s) |-> IF s[i] = "+" THEN " " ELSE s[i]]

\* The percent escapes that occur in the bodies the model enumerates; every
\* other "%xy" of a body is malformed (x or y is no hexadecimal digit).
Escapes ==
    { <<"4", "0", "@">>, <<"2", "0", " ">>, <<"3", "F", "?">>, <<"2", "B", "+">>,
      <<"2", "6", "&">>, <<"3", "D", "=">>, <<"7", "C", "|">>, <<"2", "5", "%">> }

RECURSIVE decodeURIComponent(_)
\* decodeURIComponent: [ok |-> TRUE, s |-> decoded], or ok = FALSE for the
\* URIError it throws on a malformed escape
decodeURIComponent(s) ==
    IF s = <<>> THEN [ok |-> TRUE, s |-> <<>>]
    ELSE IF Head(s) # "%"
    THEN LET r == decodeURIComponent(Tail(s)) IN
         [ok |-> r.ok, s |-> IF r.ok THEN <<Head(s)>> \o r.s ELSE <<>>]
    ELSE IF Len(s) < 3 \/ ~ \E x \in Escapes : x[1] = s[2] /\ x[2] = s[3]
    THEN [ok |-> FALSE, s |-> <<>>]
    ELSE LET c == (CHOOSE x \in Escapes : x[1] = s[2] /\ x[2] = s[3])[3]
             r == decodeURIComponent(SubSeq(s, 4, Len(s))) IN
         [ok |-> r.ok, s |-> IF r.ok THEN <<c>> \o r.s ELSE <<>>]

(***************************************************************************)
(* JavaScript values and objects.  A value is a string (t = "str", its     *)
(* characters in s), an array of strings (t = "arr", its elements in a),   *)
(* null or undefined.  An object is the sequence of its own entries in     *)
(* insertion order, which is the order of Object.keys and of for-in.       *)
(***************************************************************************)
Str(s) == [t |-> "str", s |-> s, a |-> <<>>]
Arr(a) == [t |-> "arr", s |-> <<>>, a |-> a]
Null == [t |-> "null", s |-> <<>>, a |-> <<>>]
Undefined == [t |-> "undef", s |-> <<>>, a |-> <<>>]

Has(obj, k) == \E i \in 1..Len(obj) : obj[i].k = k
\* obj[k]
Get(obj, k) ==
    IF Has(obj, k) THEN obj[CHOOSE i \in 1..Len(obj) : obj[i].k = k].v ELSE Undefined
\* obj[k] = v
Put(obj, k, v) ==
    IF Has(obj, k)
    THEN [i \in 1..Len(obj) |-> IF obj[i].k = k THEN [k |-> k, v |-> v] ELSE obj[i]]
    ELSE Append(obj, [k |-> k, v |-> v])
\* delete obj[k]
Delete(obj, k) == SelectSeq(obj, LAMBDA en : en.k # k)
\* Object.keys(obj)
Keys(obj) == [i \in 1..Len(obj) |-> obj[i].k]

\* ToBoolean
Truthy(v) == (v.t = "str" /\ v.s # <<>>) \/ v.t = "arr"
\* String(v)
String(v) ==
    CASE v.t = "str" -> v.s
      [] v.t = "arr" -> join(v.a, <<",">>)
      [] v.t = "null" -> <<"n", "u", "l", "l">>
      [] OTHER -> <<"u", "n", "d", "e", "f", "i", "n", "e", "d">>

(***************************************************************************)
(* src/FORM_DOC.md, lines 36-54.                                           *)
(***************************************************************************)
\* one iteration of the forEach of parseQueryString, on the result so far
\* ([ok, obj]; ok = FALSE once decodeURIComponent has thrown)
parsePair(acc, pair) ==
    IF ~acc.ok \/ pair = <<>> THEN acc
    ELSE LET parts == split(pair, <<"=">>)
             k == decodeURIComponent(replacePlus(Head(parts)))
             v == decodeURIComponent(replacePlus(join(Tail(parts), <<"=">>)))
             old == Get(acc.obj, k.s)
         IN  IF ~k.ok \/ ~v.ok THEN [ok |-> FALSE, obj |-> <<>>]
             ELSE [ok |-> TRUE,
                   obj |-> IF old.t = "undef" THEN Put(acc.obj, k.s, Str(v.s))
                           ELSE IF old.t = "arr"
                                THEN Put(acc.obj, k.s, Arr(Append(old.a, v.s)))
                                ELSE Put(acc.obj, k.s, Arr(<<old.s, v.s>>))]

RECURSIVE parsePairs(_, _)
parsePairs(acc, pairs) ==
    IF pairs = <<>> THEN acc ELSE parsePairs(parsePair(acc, Head(pairs)), Tail(pairs))

parseQueryString(qs) == parsePairs([ok |-> TRUE, obj |-> <<>>], split(qs, <<"&">>))

\* normalizeValue joining with a bare comma
normalizeValue_Comma(v) ==
    IF v.t = "null" \/ v.t = "undef" THEN <<>>
    ELSE IF v.t = "arr" THEN join(v.a, <<",">>)
    ELSE String(v)

normalizeValue(v) ==
    IF v.t = "null" \/ v.t = "undef" THEN <<>>
    ELSE IF v.t = "arr" THEN join(v.a, <<",", " ">>)
    ELSE String(v)

(***************************************************************************)
(* The requests.  FORM_DOC.md, lines 12-24 and 136-150: the client sends   *)
(* label -> value fields and the helper field _field_order, the labels     *)
(* joined by "|||"; Apps Script hands doPost the event e with the          *)
(* pre-parsed e.parameter and the raw e.postData.                          *)
(* A generated request is built from an intent: the fields, each with the  *)
(* values submitted under it, and the segments of the order hint.  A       *)
(* segment is a label with optional blanks around it, or a blank alone.    *)
(***************************************************************************)
FIELD_ORDER == <<"_", "f", "i", "e", "l", "d", "_", "o", "r", "d", "e", "r">>
TIMESTAMP == <<"T", "i", "m", "e", "s", "t", "a", "m", "p">>
SEPARATOR == <<"|", "|", "|">>

NameL == <<"N", "a", "m", "e">>
EmailL == <<"E", "m", "a", "i", "l">>
GoalL == <<"G", "o", "a", "l", " ", "?">>
JohnDoe == <<"J", "o", "h", "n", " ", "D", "o", "e">>
JohnMail == <<"j", "o", "h", "n", "@", "e", "x", "a", "m", "p", "l", "e", ".", "c", "o", "m">>
PlusVal == <<"a", "+", "b">>

FieldNames == {NameL, GoalL, EmailL}
ValueLists == {<<PlusVal>>, <<JohnDoe, PlusVal>>, <<PlusVal, <<>>, JohnDoe>>}
Segments ==
    { [pre |-> <<>>, core |-> NameL, post |-> <<>>],
      [pre |-> <<" ">>, core |-> GoalL, post |-> <<" ">>],
      [pre |-> <<" ">>, core |-> <<>>, post |-> <<>>] }

\* sequences of at most n elements of S
SeqsUpTo(S, n) == UNION {[1..k -> S] : k \in 0..n}
Distinct(f) == \A i, j \in 1..Len(f) : i # j => f[i].k # f[j].k

FieldLists ==
    {g \in SeqsUpTo([k : FieldNames, vals : ValueLists], MaxFields) : Distinct(g)}
Intents ==
    { [fields |-> f, hinted |-> FALSE, segs |-> <<>>, hintFirst |-> FALSE] : f \in FieldLists }
    \cup
    { [fields |-> f, hinted |-> TRUE, segs |-> sg, hintFirst |-> hf] :
        f \in FieldLists, sg \in SeqsUpTo(Segments, MaxSegs), hf \in BOOLEAN }

\* the text of the hint of an intent, and the labels it lists
segText(sg) == sg.pre \o sg.core \o sg.post
hintText(it) == join([i \in 1..Len(it.segs) |-> segText(it.segs[i])], SEPARATOR)
RECURSIVE cores(_)
cores(segs) ==
    IF segs = <<>> THEN <<>>
    ELSE (IF Head(segs).core = <<>> THEN <<>> ELSE <<Head(segs).core>>) \o cores(Tail(segs))

\* form encoding of one character (FORM_DOC.md line 20: blank as "+", reserved
\* characters as percent escapes, "|" as it is)
encodeChar(c) ==
    IF c = " " THEN <<"+">>
    ELSE IF c # "|" /\ \E x \in Escapes : x[3] = c
         THEN LET x == CHOOSE y \in Escapes : y[3] = c IN <<"%", x[1], x[2]>>
         ELSE <<c>>
RECURSIVE encode(_)
encode(s) == IF s = <<>> THEN <<>> ELSE encodeChar(Head(s)) \o encode(Tail(s))

\* the object a JSON body or e.parameter holds for an intent
entryOf(fl) == [k |-> fl.k, v |-> IF Len(fl.vals) = 1 THEN Str(fl.vals[1]) ELSE Arr(fl.vals)]
objectOf(it) ==
    LET fs == [i \in 1..Len(it.fields) |-> entryOf(it.fields[i])]
        h == <<[k |-> FIELD_ORDER, v |-> Str(hintText(it))]>>
    IN  IF ~it.hinted THEN fs ELSE IF it.hintFirst THEN h \o fs ELSE fs \o h

\* the urlencoded body for an intent: one key=value pair per value
RECURSIVE pairsOf(_, _)
pairsOf(k, vals) ==
    IF vals = <<>> THEN <<>>
    ELSE <<encode(k) \o <<"=">> \o encode(Head(vals))>> \o pairsOf(k, Tail(vals))
RECURSIVE fieldPairs(_)
fieldPairs(fields) ==
    IF fields = <<>> THEN <<>>
    ELSE pairsOf(Head(fields).k, Head(fields).vals) \o fieldPairs(Tail(fields))
bodyOf(it) ==
    LET fs == fieldPairs(it.fields)
        h == <<FIELD_ORDER \o <<"=">> \o encode(hintText(it))>>
    IN  join(IF ~it.hinted THEN fs ELSE IF it.hintFirst THEN h \o fs ELSE fs \o h, <<"&">>)

JSON_TYPE == "application/json"
FORM_TYPE == "application/x-www-form-urlencoded"
NoJson == [kind |-> "none", obj |-> <<>>]

\* The event e.  type "none": e.postData is absent.  `json` stands for the
\* text of a JSON body by what it denotes (kind "malformed": no JSON text;
\* "empty": the empty string; "null": null; "object": the object obj);
\* `contents` is e.postData.contents of a urlencoded body.
\* `path`, `hint`, `text`, `labels` and `fields` record how the request was
\* made: hint is "text" when the body carries _field_order as one string,
\* `text`, whose segments list `labels`; "none" when it carries none; "other"
\* otherwise.  `fields` are the submitted fields, each with its values.
Event(path, type, json, parameter, contents, hint, text, labels, fields) ==
    [path |-> path, type |-> type, json |-> json, parameter |-> parameter,
     contents |-> contents, hint |-> hint, text |-> text, labels |-> labels,
     fields |-> fields]

requestOf(it, path) ==
    LET hint == IF it.hinted THEN "text" ELSE "none"
        text == IF it.hinted THEN hintText(it) ELSE <<>>
        labels == IF it.hinted THEN cores(it.segs) ELSE <<>>
    IN  CASE path = "json" ->
                 Event(path, JSON_TYPE, [kind |-> "object", obj |-> objectOf(it)], <<>>, <<>>,
                       hint, text, labels, it.fields)
          [] path = "parameter" ->
                 Event(path, FORM_TYPE, NoJson, objectOf(it), bodyOf(it), hint, text, labels, it.fields)
          [] OTHER ->
                 Event(path, FORM_TYPE, NoJson, <<>>, bodyOf(it), hint, text, labels, it.fields)

Generated == {requestOf(it, p) : it \in Intents, p \in {"json", "parameter", "raw"}}

(***************************************************************************)
(* Requests written out in full.                                           *)
(***************************************************************************)
\* spec section 8 and FORM_DOC.md line 143:
\* Name=John+Doe&Email=john%40example.com&_field_order=Name|||Email
ExampleBody ==
    <<"N", "a", "m", "e", "=", "J", "o", "h", "n", "+", "D", "o", "e", "&",
      "E", "m", "a", "i", "l", "=", "j", "o", "h", "n", "%", "4", "0",
      "e", "x", "a", "m", "p", "l", "e", ".", "c", "o", "m", "&">>
    \o FIELD_ORDER \o <<"=">> \o NameL \o SEPARATOR \o EmailL
ExampleRequest ==
    Event("raw", FORM_TYPE, NoJson, <<>>, ExampleBody, "text",
          NameL \o SEPARATOR \o EmailL, <<NameL, EmailL>>,
          <<[k |-> NameL, vals |-> <<JohnDoe>>], [k |-> EmailL, vals |-> <<JohnMail>>]>>)

\* JSON requests whose body is "{", the body as e.postData.contents, with and
\* without parameters in the URL
MalformedJson ==
    Event("json", JSON_TYPE, [kind |-> "malformed", obj |-> <<>>],
          <<[k |-> NameL, v |-> Str(JohnDoe)], [k |-> FIELD_ORDER, v |-> Str(NameL)]>>,
          <<"{">>, "none", <<>>, <<>>, <<>>)
MalformedJsonOnly ==
    Event("json", JSON_TYPE, [kind |-> "malformed", obj |-> <<>>], <<>>,
          <<"{">>, "none", <<>>, <<>>, <<>>)
\* JSON requests whose body is empty, and is the text null
EmptyJson ==
    Event("json", JSON_TYPE, [kind |-> "empty", obj |-> <<>>], <<>>, <<>>, "none", <<>>, <<>>, <<>>)
NullJson ==
    Event("json", JSON_TYPE, [kind |-> "null", obj |-> <<>>], <<>>,
          <<"n", "u", "l", "l">>, "none", <<>>, <<>>, <<>>)
\* Name=%zz&_field_order=Name : a malformed escape
BadEscape ==
    Event("raw", FORM_TYPE, NoJson, <<>>,
          NameL \o <<"=", "%", "z", "z", "&">> \o FIELD_ORDER \o <<"=">> \o NameL,
          "text", NameL, <<NameL>>, <<>>)
\* _field_order=Name&Name=a=b&_field_order=Email&Email : the hint sent twice,
\* a value holding "=", a key without "="
TwiceHinted ==
    Event("raw", FORM_TYPE, NoJson, <<>>,
          FIELD_ORDER \o <<"=">> \o NameL \o <<"&">> \o NameL \o <<"=", "a", "=", "b", "&">>
          \o FIELD_ORDER \o <<"=">> \o EmailL \o <<"&">> \o EmailL,
          "other", <<>>, <<>>, <<>>)
\* a request with neither body nor parameters
Bare == Event("raw", "none", NoJson, <<>>, <<>>, "none", <<>>, <<>>, <<>>)

Written == {ExampleRequest, MalformedJson, MalformedJsonOnly, EmptyJson, NullJson, BadEscape, TwiceHinted, Bare}
Requests == Generated \cup Written

(***************************************************************************)
(* doPost, src/FORM_DOC.md lines 56-106.                                   *)
(***************************************************************************)
\* JSON.parse(e.postData.contents || '{}'): ok = FALSE when it throws
JSONparse(j) ==
    [ok |-> j.kind # "malformed", null |-> j.kind = "null",
     obj |-> IF j.kind = "object" THEN j.obj ELSE <<>>]

\* step 1, the parameter branch: data[k] = Array.isArray(val) ? val[0] : val
firstValue(val) ==
    IF val.t = "arr" THEN (IF val.a = <<>> THEN Undefined ELSE Str(val.a[1])) ELSE val
fromParameter(par) == [i \in 1..Len(par) |-> [k |-> par[i].k, v |-> firstValue(par[i].v)]]

\* parseBody whose JSON branch falls back to the parameters when JSON.parse throws
parseBody_Fallback(ev) ==
    IF ev.type # "none" /\ ev.type = JSON_TYPE /\ JSONparse(ev.json).ok
    THEN JSONparse(ev.json)
    ELSE IF ev.parameter # <<>>
    THEN [ok |-> TRUE, null |-> FALSE, obj |-> fromParameter(ev.parameter)]
    ELSE IF ev.type # "none" /\ ev.type # JSON_TYPE /\ ev.contents # <<>>
    THEN LET q == parseQueryString(ev.contents) IN [ok |-> q.ok, null |-> FALSE, obj |-> q.obj]
    ELSE [ok |-> TRUE, null |-> FALSE, obj |-> <<>>]

\* step 1 (lines 59-66): [ok, null, obj]; ok = FALSE when an exception leaves
\* the step, null = TRUE when `data` is null
parseBody(ev) ==
    IF ev.type # "none" /\ ev.type = JSON_TYPE
    THEN LET r == JSONparse(ev.json) IN
         IF r.ok THEN r ELSE [ok |-> TRUE, null |-> FALSE, obj |-> <<>>]
    ELSE IF ev.parameter # <<>>
    THEN [ok |-> TRUE, null |-> FALSE, obj |-> fromParameter(ev.parameter)]
    ELSE IF ev.type # "none" /\ ev.contents # <<>>
    THEN LET q == parseQueryString(ev.contents) IN [ok |-> q.ok, null |-> FALSE, obj |-> q.obj]
    ELSE [ok |-> TRUE, null |-> FALSE, obj |-> <<>>]

\* step 2 (lines 69-75): fieldOrder, and data without the helper field
NonEmpty(s) == s # <<>>
trimAll(a) == [i \in 1..Len(a) |-> trim(a[i])]
\* fieldOrderOf without .filter(Boolean)
fieldOrderOf_NoFilter(obj) ==
    IF Truthy(Get(obj, FIELD_ORDER))
    THEN trimAll(split(String(Get(obj, FIELD_ORDER)), SEPARATOR))
    ELSE Keys(obj)
fieldOrderOf(obj) ==
    IF Truthy(Get(obj, FIELD_ORDER))
    THEN SelectSeq(trimAll(split(String(Get(obj, FIELD_ORDER)), SEPARATOR)), NonEmpty)
    ELSE Keys(obj)
dataAfter(obj) == IF Truthy(Get(obj, FIELD_ORDER)) THEN Delete(obj, FIELD_ORDER) ELSE obj

\* new Date().toISOString() of the n-th request
Digit == <<"1", "2", "3", "4", "5", "6", "7", "8", "9">>
toISOString(n) == <<"T", Digit[n]>>

\* step 3 (lines 78-80)
headersOf(fieldOrder) == <<TIMESTAMP>> \o fieldOrder
rowOf(obj, fieldOrder, n) ==
    <<toISOString(n)>> \o [i \in 1..Len(fieldOrder) |-> normalizeValue(Get(obj, fieldOrder[i]))]

Response(status, message) == [status |-> status, message |-> message]

\* the catch of line 102: the response is the error, nothing else changes
Caught(message) ==
    /\ responses' = Append(responses, Response("error", message))
    /\ pc' = "done"

\* steps 1-3
Build ==
    /\ pc = "start"
    /\ LET p == parseBody(e) IN
       IF ~p.ok
       THEN /\ Caught("URIError")
            /\ UNCHANGED <<data, headers, row, trace>>
       ELSE IF p.null
       THEN /\ Caught("TypeError")
            /\ UNCHANGED <<data, headers, row, trace>>
       ELSE /\ data' = dataAfter(p.obj)
            /\ headers' = headersOf(fieldOrderOf(p.obj))
            /\ row' = rowOf(dataAfter(p.obj), fieldOrderOf(p.obj), clock)
            /\ trace' = Append(trace, "parse")
            /\ pc' = "built"
            /\ UNCHANGED responses
    /\ UNCHANGED <<e, sheet, outbox, clock, faults, before, cliVars>>

(***************************************************************************)
(* The spreadsheet tab, as the calls of lines 83-92 use it.  rows[1] is    *)
(* row 1; a cell a row does not reach is empty.                            *)
(***************************************************************************)
Max(a, b) == IF a > b THEN a ELSE b
cellOf(r, i) == IF i <= Len(r) THEN r[i] ELSE <<>>
\* index of the last non-empty cell of a row, 0 when it has none
lastCell(r) ==
    IF \E i \in 1..Len(r) : r[i] # <<>>
    THEN CHOOSE i \in 1..Len(r) : r[i] # <<>> /\ \A j \in (i + 1)..Len(r) : r[j] = <<>>
    ELSE 0
\* sheet.getLastColumn(), sheet.getLastRow()
getLastColumn(sh) ==
    IF sh.rows = <<>> THEN 0
    ELSE CHOOSE m \in 0..sh.cols :
            /\ \A i \in 1..Len(sh.rows) : lastCell(sh.rows[i]) <= m
            /\ (m = 0 \/ \E i \in 1..Len(sh.rows) : lastCell(sh.rows[i]) = m)
getLastRow(sh) ==
    IF \E i \in 1..Len(sh.rows) : lastCell(sh.rows[i]) > 0
    THEN CHOOSE i \in 1..Len(sh.rows) :
            /\ lastCell(sh.rows[i]) > 0
            /\ \A j \in (i + 1)..Len(sh.rows) : lastCell(sh.rows[j]) = 0
    ELSE 0
\* sheet.insertColumnsAfter(pos, n): the cells right of `pos` are empty here,
\* as pos is the last column with content (or 1 on an empty sheet)
insertColumnsAfter(sh, n) == [sh EXCEPT !.cols = sh.cols + n]
\* setRow1 replacing the whole of row 1
setRow1_Replaces(sh, values) ==
    [sh EXCEPT !.rows = IF sh.rows = <<>> THEN <<values>> ELSE [sh.rows EXCEPT ![1] = values]]
\* sheet.getRange(1, 1, 1, Len(values)).setValues([values])
setRow1(sh, values) ==
    LET old == IF sh.rows = <<>> THEN <<>> ELSE sh.rows[1]
        new == [i \in 1..Max(Len(old), Len(values)) |->
                   IF i <= Len(values) THEN values[i] ELSE old[i]]
    IN  [sh EXCEPT !.rows = IF sh.rows = <<>> THEN <<new>> ELSE [sh.rows EXCEPT ![1] = new]]
\* sheet.appendRow(values): the row below the last row with content
appendRow(sh, values) ==
    LET at == getLastRow(sh) + 1 IN
    [cols |-> Max(sh.cols, Len(values)),
     rows |-> IF at <= Len(sh.rows) THEN [sh.rows EXCEPT ![at] = values]
              ELSE Append(sh.rows, values)]

\* lines 86-88 on the sheet
ensureColumns(sh, hs) ==
    IF getLastColumn(sh) < Len(hs)
    THEN insertColumnsAfter(sh, Len(hs) - getLastColumn(sh))
    ELSE sh
\* lines 86-89 on the sheet
withHeader(sh, hs) == setRow1(ensureColumns(sh, hs), hs)

\* whether a call of a collaborator throws: only where `faults` allows it
Throws == IF faults THEN BOOLEAN ELSE {FALSE}

\* step 4 (lines 83-89); setValues throws on a range wider than the grid
WriteHeader ==
    /\ pc = "built"
    /\ \E thrown \in Throws :
         IF thrown
         THEN /\ Caught("Spreadsheet")
              /\ UNCHANGED <<sheet, trace>>
         ELSE IF ensureColumns(sheet, headers).cols < Len(headers)
         THEN /\ Caught("Range")
              /\ sheet' = ensureColumns(sheet, headers)
              /\ UNCHANGED trace
         ELSE /\ sheet' = withHeader(sheet, headers)
              /\ trace' = Append(trace, "header")
              /\ pc' = "header"
              /\ UNCHANGED responses
    /\ UNCHANGED <<e, data, headers, row, outbox, clock, faults, before, cliVars>>

\* step 5 (line 92)
AppendRow ==
    /\ pc = "header"
    /\ \E thrown \in Throws :
         IF thrown
         THEN /\ Caught("Spreadsheet")
              /\ UNCHANGED <<sheet, trace>>
         ELSE /\ sheet' = appendRow(sheet, row)
              /\ trace' = Append(trace, "append")
              /\ pc' = "appended"
              /\ UNCHANGED responses
    /\ UNCHANGED <<e, data, headers, row, outbox, clock, faults, before, cliVars>>

\* lines 95-96: `${h}:\n${row[i] || ''}` joined by a blank line
mailBody(hs, r) ==
    join([i \in 1..Len(hs) |-> hs[i] \o <<":", "\n">> \o cellOf(r, i)], <<"\n", "\n">>)

\* Notify swallowing the failure of sendEmail
Notify_Swallows ==
    /\ pc = "appended"
    /\ \E thrown \in Throws :
         /\ outbox' = IF thrown THEN outbox ELSE Append(outbox, mailBody(headers, row))
         /\ trace' = IF thrown THEN trace ELSE Append(trace, "notify")
         /\ pc' = "notified"
         /\ UNCHANGED responses
    /\ UNCHANGED <<e, data, headers, row, sheet, clock, faults, before, cliVars>>

\* step 6 (lines 95-98)
Notify ==
    /\ pc = "appended"
    /\ \E thrown \in Throws :
         IF thrown
         THEN /\ Caught("Mail")
              /\ UNCHANGED <<outbox, trace>>
         ELSE /\ outbox' = Append(outbox, mailBody(headers, row))
              /\ trace' = Append(trace, "notify")
              /\ pc' = "notified"
              /\ UNCHANGED responses
    /\ UNCHANGED <<e, data, headers, row, sheet, clock, faults, before, cliVars>>

\* lines 100-101
Respond ==
    /\ pc = "notified"
    /\ responses' = Append(responses, Response("success", ""))
    /\ pc' = "done"
    /\ UNCHANGED <<e, data, headers, row, sheet, outbox, clock, faults, before, trace, cliVars>>

\* the requests of the behaviours that follow the sheet over several submissions
SheetRequests ==
    { requestOf([fields |-> <<[k |-> NameL, vals |-> <<JohnDoe>>]>>, hinted |-> TRUE,
                 segs |-> <<[pre |-> <<>>, core |-> NameL, post |-> <<>>]>>,
                 hintFirst |-> FALSE], "parameter"),
      requestOf([fields |-> <<[k |-> GoalL, vals |-> <<PlusVal>>]>>, hinted |-> TRUE,
                 segs |-> <<[pre |-> <<>>, core |-> GoalL, post |-> <<>>]>>,
                 hintFirst |-> TRUE], "json"),
      requestOf([fields |-> <<[k |-> NameL, vals |-> <<JohnDoe, PlusVal>>]>>, hinted |-> TRUE,
                 segs |-> <<[pre |-> <<>>, core |-> NameL, post |-> <<>>],
                            [pre |-> <<" ">>, core |-> GoalL, post |-> <<" ">>]>>,
                 hintFirst |-> FALSE], "raw"),
      requestOf([fields |-> <<[k |-> NameL, vals |-> <<PlusVal>>]>>, hinted |-> FALSE,
                 segs |-> <<>>, hintFirst |-> FALSE], "raw"),
      ExampleRequest, MalformedJson, NullJson, BadEscape }

\* the platform invokes doPost for the next request once the last has returned
Receive ==
    /\ pc = "done"
    /\ clock < MaxRequests
    /\ e' \in SheetRequests
    /\ clock' = clock + 1
    /\ pc' = "start"
    /\ before' = sheet
    /\ trace' = <<>>
    /\ data' = <<>>
    /\ headers' = <<>>
    /\ row' = <<>>
    /\ UNCHANGED <<sheet, outbox, responses, faults, cliVars>>

(***************************************************************************)
(* The contact form, src/script.js lines 33-80.                            *)
(***************************************************************************)
SENDING == "Sending..."
SENT == "Message Sent"
ERROR == "Error"
Transient == {SENDING, SENT, ERROR}
\* the delays of the two setTimeout calls, in ms
SUCCESS_DELAY == 4000
ERROR_DELAY == 3000
\* what the button may read in the page
Labels == {"Send Message", "Submit"}

Timer(delay, originalText, success, outcome) ==
    [delay |-> delay, originalText |-> originalText, success |-> success, outcome |-> outcome]
Entry(outcome, path, delay, alerted) ==
    [outcome |-> outcome, path |-> path, delay |-> delay, alerted |-> alerted]

RemoveAt(q, i) == SubSeq(q, 1, i - 1) \o SubSeq(q, i + 1, Len(q))

\* the user fills in the form
UserTypes ==
    /\ ~alertOpen
    /\ ~formFilled
    /\ formFilled' = TRUE
    /\ UNCHANGED <<btnText, btnDisabled, hasSuccess, visible, inflight, timers, alertOpen,
                   submits, fetches, log, srvVars>>

\* Submit leaving the button enabled
Submit_StaysEnabled ==
    /\ ~btnDisabled
    /\ ~alertOpen
    /\ submits < MaxSubmits
    /\ btnText' = SENDING
    /\ inflight' = Append(inflight, [originalText |-> btnText])
    /\ submits' = submits + 1
    /\ fetches' = fetches + 1
    /\ UNCHANGED <<btnDisabled, hasSuccess, visible, formFilled, timers, alertOpen, log, srvVars>>

\* lines 37-55: the listener up to `await fetch`.  The browser raises the
\* submit event only through the form's enabled submit button, and not while
\* the alert is open.
Submit ==
    /\ ~btnDisabled
    /\ ~alertOpen
    /\ submits < MaxSubmits
    /\ btnText' = SENDING
    /\ btnDisabled' = TRUE
    /\ inflight' = Append(inflight, [originalText |-> btnText])
    /\ submits' = submits + 1
    /\ fetches' = fetches + 1
    /\ UNCHANGED <<hasSuccess, visible, formFilled, timers, alertOpen, log, srvVars>>

\* lines 70-78: the catch block
CatchBlock(h, outcome) ==
    /\ btnText' = ERROR
    /\ timers' = Append(timers, Timer(ERROR_DELAY, h.originalText, FALSE, outcome))
    /\ alertOpen' = TRUE
    /\ log' = Append(log, Entry(outcome, "error", ERROR_DELAY, TRUE))

\* lines 57-66: fetch resolved with response.ok
ResponseOk ==
    /\ ~alertOpen
    /\ \E i \in 1..Len(inflight) :
         /\ inflight' = RemoveAt(inflight, i)
         /\ formFilled' = FALSE
         /\ IF hasSuccess
            THEN /\ btnText' = SENT
                 /\ visible' = TRUE
                 /\ timers' = Append(timers, Timer(SUCCESS_DELAY, inflight[i].originalText,
                                                   TRUE, "ok"))
                 /\ log' = Append(log, Entry("ok", "success", SUCCESS_DELAY, FALSE))
                 /\ UNCHANGED alertOpen
            ELSE \* formSuccess is null: line 60 throws a TypeError into the catch
                 /\ CatchBlock(inflight[i], "ok")
                 /\ UNCHANGED visible
    /\ UNCHANGED <<btnDisabled, hasSuccess, submits, fetches, srvVars>>

\* lines 67-69: fetch resolved with a non-success status
ResponseNotOk ==
    /\ ~alertOpen
    /\ \E i \in 1..Len(inflight) :
         /\ inflight' = RemoveAt(inflight, i)
         /\ CatchBlock(inflight[i], "http")
    /\ UNCHANGED <<btnDisabled, hasSuccess, visible, formFilled, submits, fetches, srvVars>>

\* line 49: fetch rejected (network error)
FetchRejects ==
    /\ ~alertOpen
    /\ \E i \in 1..Len(inflight) :
         /\ inflight' = RemoveAt(inflight, i)
         /\ CatchBlock(inflight[i], "network")
    /\ UNCHANGED <<btnDisabled, hasSuccess, visible, formFilled, submits, fetches, srvVars>>

\* the user closes the alert of line 77
DismissAlert ==
    /\ alertOpen
    /\ alertOpen' = FALSE
    /\ UNCHANGED <<btnText, btnDisabled, hasSuccess, visible, formFilled, inflight, timers,
                   submits, fetches, log, srvVars>>

\* lines 62-66 and 73-76: a timer callback runs
TimerFires ==
    /\ ~alertOpen
    /\ \E i \in 1..Len(timers) :
         /\ timers' = RemoveAt(timers, i)
         /\ btnText' = timers[i].originalText
         /\ btnDisabled' = FALSE
         /\ visible' = IF timers[i].success THEN FALSE ELSE visible
    /\ UNCHANGED <<hasSuccess, formFilled, inflight, alertOpen, submits, fetches, log, srvVars>>

(***************************************************************************)
(* Specifications.                                                         *)
(***************************************************************************)
MaxGrid == 2          \* widest grid a behaviour may start with

EmptySheet(cols) == [cols |-> cols, rows |-> <<>>]

InitPage ==
    /\ btnDisabled = FALSE
    /\ visible = FALSE
    /\ formFilled = FALSE
    /\ inflight = <<>>
    /\ timers = <<>>
    /\ alertOpen = FALSE
    /\ submits = 0
    /\ fetches = 0
    /\ log = <<>>

InitWebhook ==
    /\ pc = "start"
    /\ data = <<>>
    /\ headers = <<>>
    /\ row = <<>>
    /\ outbox = <<>>
    /\ responses = <<>>
    /\ clock = 1
    /\ trace = <<>>

\* one request, of any shape, on an empty sheet; the collaborators work
InitParse ==
    /\ e \in Requests
    /\ InitWebhook
    /\ sheet = EmptySheet(1)
    /\ before = sheet
    /\ faults = FALSE
    /\ InitPage /\ btnText = "Submit" /\ hasSuccess = TRUE

\* a series of requests on one sheet; the collaborators may throw
Init ==
    /\ e \in SheetRequests
    /\ InitWebhook
    /\ sheet \in {EmptySheet(c) : c \in 1..MaxGrid}
    /\ before = sheet
    /\ faults = TRUE
    /\ InitPage /\ btnText = "Submit" /\ hasSuccess = TRUE

\* the page, with or without the #formSuccess element
InitClient ==
    /\ e = Bare
    /\ InitWebhook
    /\ sheet = EmptySheet(1)
    /\ before = sheet
    /\ faults = FALSE
    /\ InitPage /\ btnText \in Labels /\ hasSuccess \in BOOLEAN

doPost == Build \/ WriteHeader \/ AppendRow \/ Notify \/ Respond
Next == doPost \/ Receive
NextClient ==
    UserTypes \/ Submit \/ ResponseOk \/ ResponseNotOk \/ FetchRejects \/ DismissAlert
    \/ TimerFires

SpecParse == InitParse /\ [][doPost]_vars
Spec == Init /\ [][Next]_vars
SpecClient == InitClient /\ [][NextClient]_vars

(***************************************************************************)
(* Properties of steps 1-3 of doPost, checked under SpecParse.             *)
(***************************************************************************)
\* steps 1-3 of the current invocation have run
Built == trace # <<>>
\* the request carries a hint that is one non-empty string
Hinted == e.hint = "text" /\ e.text # <<>>
\* the values submitted under label L, none when no field has that name
submitted(L) ==
    IF \E i \in 1..Len(e.fields) : e.fields[i].k = L
    THEN e.fields[CHOOSE i \in 1..Len(e.fields) : e.fields[i].k = L].vals
    ELSE <<>>
Range(f) == {f[i] : i \in 1..Len(f)}

\* C1: a request whose body carries a hint text with segments listing the
\* labels L1..Ln (blanks around a label and empty segments allowed) gets the
\* header <<"Timestamp", L1, ..., Ln>>, whatever the other keys, their order,
\* the place of the hint among them and the parse path.
C1_HeaderFollowsHint ==
    (Built /\ Hinted) => headers = <<TIMESTAMP>> \o e.labels

\* C1 witness: a urlencoded body parsed by parseQueryString, the hint first,
\* with blanks or empty segments in it, two labels, and the fields in another
\* order than the hint's.
C1_Witness ==
    /\ pc = "done" /\ Hinted /\ e.path = "raw"
    /\ Len(e.labels) = 2 /\ e.labels[1] # e.labels[2]
    /\ Len(e.text) > Len(e.labels[1]) + Len(e.labels[2]) + Len(SEPARATOR)
    /\ Len(data) = 2 /\ data[1].k = e.labels[2]
    /\ headers = <<TIMESTAMP, e.labels[1], e.labels[2]>>

\* C2: the label _field_order is never a header, and the text of a hint is
\* never a cell of the row.
C2_HintNeverPersisted ==
    Built => /\ FIELD_ORDER \notin Range(headers)
             /\ (Hinted => e.text \notin Range(row))

Multi(i) == Hinted /\ i \in 1..Len(e.labels) /\ Len(submitted(e.labels[i])) >= 2

\* C4 as claimed: several values under a label of the hint give the cell
\* "a1, a2, ..., ak" on every parse path.
C4_JoinedOnEveryPath ==
    Built => \A i \in 1..Len(e.labels) :
                Multi(i) => row[i + 1] = join(submitted(e.labels[i]), <<",", " ">>)

\* C4 amended: they give the cell "a1, a2, ..., ak" when they come as a JSON
\* array or as repeated keys of the raw query string, and the cell a1, the
\* first value alone, when they come as an array of the pre-parsed parameters.
C4_JoinedOrFirst ==
    Built => \A i \in 1..Len(e.labels) :
                Multi(i) =>
                   row[i + 1] = IF e.path = "parameter"
                                THEN submitted(e.labels[i])[1]
                                ELSE join(submitted(e.labels[i]), <<",", " ">>)

\* C4 witness: three values under one repeated key of a raw query string,
\* one of them empty, joined in the cell.
C4_Witness ==
    /\ pc = "done" /\ e.path = "raw" /\ Multi(1)
    /\ submitted(e.labels[1]) = <<PlusVal, <<>>, JohnDoe>>
    /\ row[2] = PlusVal \o <<",", " ">> \o <<",", " ">> \o JohnDoe

\* C5: a JSON request with an unparseable body gives the empty mapping, the
\* header <<"Timestamp">> and the row <<timestamp>>, whatever e.parameter and
\* e.postData.contents hold, and, the collaborators working, the response
\* "success".
C5_MalformedJsonIsEmpty ==
    (e.type = JSON_TYPE /\ e.json.kind = "malformed") =>
      /\ pc # "start" => /\ Built
                         /\ data = <<>>
                         /\ headers = <<TIMESTAMP>>
                         /\ row = <<toISOString(clock)>>
      /\ pc = "done" => responses[Len(responses)] = Response("success", "")

\* C5 witness: the body "{" with parameters Name and _field_order in the URL,
\* answered with success and the one-cell row on the sheet.
C5_Witness ==
    /\ pc = "done" /\ e = MalformedJson /\ e.parameter # <<>>
    /\ sheet.rows = <<<<TIMESTAMP>>, <<toISOString(clock)>>>>
    /\ responses = <<Response("success", "")>>

(***************************************************************************)
(* Properties of doPost as a whole and of the sheet, checked under Spec.   *)
(***************************************************************************)
Steps == <<"parse", "header", "append", "notify">>
IsPrefix(a, b) == Len(a) <= Len(b) /\ a = SubSeq(b, 1, Len(a))
Did(step) == step \in Range(trace)
Successes == Cardinality({i \in 1..Len(responses) : responses[i].status = "success"})
LastResponse == responses[Len(responses)]

\* C9: every invocation returns exactly one response, {status: "success"} or
\* {status: "error", message}; the steps run in the order parse, header,
\* append, notify; success is returned only after all four; an error is
\* returned at the first step that fails, with no later step run and what
\* the earlier steps wrote left in place.
C9_OneResponsePerInvocation ==
    /\ Len(responses) = IF pc = "done" THEN clock ELSE clock - 1
    /\ IsPrefix(trace, Steps)
    /\ \A i \in 1..Len(responses) :
          \/ responses[i] = Response("success", "")
          \/ responses[i].status = "error" /\ responses[i].message # ""
    /\ pc = "done" => (LastResponse.status = "success" <=> trace = Steps)
    /\ ~Did("header") => sheet = before
    /\ Did("header") => /\ SubSeq(sheet.rows[1], 1, Len(headers)) = headers
                        /\ Len(sheet.rows) = Max(Len(before.rows), 1) + (IF Did("append") THEN 1 ELSE 0)
    /\ Did("append") => sheet.rows[Len(sheet.rows)] = row
    /\ Len(outbox) = Successes + (IF pc = "notified" THEN 1 ELSE 0)
                               + (IF pc = "done" /\ Did("notify") /\ LastResponse.status # "success"
                                  THEN 1 ELSE 0)

\* C9 witness: sendEmail threw: the response is the error, the row is on the
\* sheet and no mail went out.
C9_Witness ==
    /\ pc = "done" /\ LastResponse = Response("error", "Mail")
    /\ trace = <<"parse", "header", "append">>
    /\ sheet.rows[Len(sheet.rows)] = row
    /\ outbox = <<>>

\* C10: a submission that reaches the sheet writes its header over the first
\* cells of row 1 and leaves the cells of row 1 beyond them as they were;
\* appends its row below the rows there were and leaves those as they were;
\* never narrows the grid; and leaves row 1 as it was when row 1 began with
\* that header already.
C10_SheetFrame ==
    /\ sheet.cols >= before.cols
    /\ Did("header") =>
         LET old == IF before.rows = <<>> THEN <<>> ELSE before.rows[1] IN
         /\ SubSeq(sheet.rows[1], 1, Len(headers)) = headers
         /\ Len(sheet.rows[1]) = Max(Len(old), Len(headers))
         /\ \A i \in (Len(headers) + 1)..Len(old) : sheet.rows[1][i] = old[i]
         /\ \A i \in 2..Len(before.rows) : sheet.rows[i] = before.rows[i]
         /\ (IsPrefix(headers, old) => sheet.rows[1] = old)
         /\ sheet.cols >= Len(headers)
    /\ Did("append") =>
         /\ Len(sheet.rows) = Max(Len(before.rows), 1) + 1
         /\ sheet.rows[Len(sheet.rows)] = row
    /\ (Did("header") /\ ~Did("append")) => Len(sheet.rows) = Max(Len(before.rows), 1)

\* C10 witness: the second submission has a shorter header than the first;
\* its header is in row 1, the first one's last label still behind it, the
\* first one's row still in row 2 and its own row in row 3.
C10_Witness ==
    /\ pc = "done" /\ clock = 2 /\ LastResponse.status = "success"
    /\ Len(before.rows) = 2 /\ Len(before.rows[1]) = 3 /\ Len(headers) = 2
    /\ headers[2] # before.rows[1][2]
    /\ sheet.rows = <<headers \o <<before.rows[1][3]>>, before.rows[2], row>>

(***************************************************************************)
(* Properties of the contact form, checked under SpecClient.               *)
(***************************************************************************)
\* C6: the restore of a submission whose fetch resolved with response.ok is
\* armed with 4000 ms, that of one that got a non-success status or a network
\* error with 3000 ms; from the submit event to the firing of that timer the
\* button is disabled.
C6_RestoreTimers ==
    /\ \A i \in 1..Len(timers) :
          timers[i].delay = IF timers[i].outcome = "ok" THEN SUCCESS_DELAY ELSE ERROR_DELAY
    /\ (inflight # <<>> \/ timers # <<>>) => btnDisabled

\* C7: a submission whose fetch resolved with response.ok takes the success
\* path (no 'Error' label, no alert, the 4000 ms restore), whether or not the
\* page has a #formSuccess element; the error path is taken only on a
\* non-success status or a network error.
C7_OkTakesSuccessPath ==
    \A i \in 1..Len(log) :
       /\ log[i].outcome = "ok" => (log[i].path = "success" /\ ~log[i].alerted
                                    /\ log[i].delay = SUCCESS_DELAY)
       /\ log[i].path = "error" => log[i].outcome \in {"http", "network"}

\* C8: at most one fetch is unresolved at any time; each submit event issues
\* one fetch and nothing else does; from the submit event to the firing of
\* the restore timer the button is disabled; the label a listener captured
\* is never 'Sending...', 'Message Sent' or 'Error'.
C8_OneInFlight ==
    /\ Len(inflight) + Len(timers) <= 1
    /\ fetches = submits
    /\ fetches = Len(inflight) + Len(log)
    /\ (inflight # <<>> \/ timers # <<>>) => btnDisabled
    /\ \A i \in 1..Len(inflight) : inflight[i].originalText \notin Transient
    /\ \A i \in 1..Len(timers) : timers[i].originalText \notin Transient
    /\ ~btnDisabled => btnText \notin Transient

\* C8 witness: a second submission is in flight after the first one failed
\* and its restore timer fired.
C8_Witness ==
    /\ submits = 2 /\ Len(inflight) = 1 /\ Len(log) = 1 /\ log[1].path = "error"
    /\ timers = <<>> /\ btnDisabled /\ btnText = SENDING
    /\ inflight[1].originalText \in Labels

====
